---- MODULE Spec2Model ----
(***************************************************************************)
(* Job control of the Unix Shell Job Scheduler (shell_job_scheduler.c).    *)
(*                                                                         *)
(* The shell is one thread of control (the main loop) on top of which the  *)
(* SIGCHLD, SIGINT and SIGTSTP handlers run.  The handlers are installed   *)
(* with signal(), which on the documented build (gcc, glibc) gives BSD     *)
(* semantics: the handler stays installed, SIGCHLD is blocked while its    *)
(* handler runs, and an interrupted waitpid is restarted.  A handler can   *)
(* start between any two statements of the main thread; the main thread    *)
(* takes no step while a handler is running.  The main thread is           *)
(* modelled one source line at a time wherever it touches jobs, job_count, *)
(* next_job_id or fg_pid; the loops of find_job_by_* and remove_job are    *)
(* taken as one step each.                                                 *)
(*                                                                         *)
(* The children and the kernel are the environment: a running child may    *)
(* terminate or stop at any time, a stop or a termination is reported by   *)
(* waitpid once, and every such change raises SIGCHLD.  Only the shell     *)
(* resumes a stopped child.  A background child is taken to be in its own  *)
(* process group from fork on (setpgid of line 159), and the kernel hands  *)
(* out no pid twice.                                                       *)
(*                                                                         *)
(* jobs is modelled with one cell more than MAX_JOBS entries: the memory   *)
(* jobs[MAX_JOBS] addresses, which add_job writes when job_count reached   *)
(* MAX_JOBS after its capacity check.                                      *)
(***************************************************************************)
EXTENDS Integers, FiniteSets, Sequences, TLC

\* ------------------------------------------------------------------ bounds
\* Capacity of the job table (100 in the source, scaled down).
MAX_JOBS == 2
\* Number of children the shell forks in one run.
MaxProcs == 2
\* Number of stop events the children undergo in one run.
MaxStops == 2

Pids == 1..MaxProcs
NULL == -1
\* Slots of the jobs array, and the memory cell right behind it that
\* jobs[MAX_JOBS] addresses when job_count has reached MAX_JOBS.
Slots == 0..MAX_JOBS
\* What a read of jobs[-1].job_id (memory in front of the array) may yield.
GarbageIds == {0, 1}

FG_LABEL == "(foreground job)"
Command(p) == <<"c1", "c2", "c3", "c4", "c5", "c6">>[p]

NoSig == <<NULL, "none">>

VARIABLES
    jobs,         \* job_t jobs[MAX_JOBS], plus the cell behind the array
    job_count,    \* int job_count
    next_job_id,  \* int next_job_id
    fg_pid,       \* volatile sig_atomic_t fg_pid
    pc,           \* source line the main thread is at
    pid,          \* local pid of execute_command / wait_for_fg
    job_id,       \* local job_id of builtin_command
    job,          \* local job pointer of builtin_command (a slot, or NULL)
    caller,       \* who called wait_for_fg: "exec" or "fg"
    status,       \* what the blocking waitpid returned
    proc,         \* kernel: state of each child
    stopRep,      \* kernel: children whose stop is not yet reported by waitpid
    bgmode,       \* kernel: children in a process group of their own
    sigchld,      \* kernel: SIGCHLD pending for the shell
    stops,        \* number of stop events so far
    out,          \* error report printed by the main thread in the last step
    sent,         \* signal sent by the shell in the last step: <<pid, signal>>
    spawnId,      \* per pid: job id printed in the background-spawn notice
    doneId,       \* per pid: job id printed in its Done notice
    promo,        \* per pid: number of "Stopped (use 'fg ..')" notices
    fgStopped,    \* children that stopped as untabled designated foreground child
    refused,      \* children whose insertion into the table was refused
    everIds       \* job ids that have been in jobs[0..job_count-1] so far

kern == <<proc, stopRep, bgmode, sigchld, stops>>
locals == <<pid, job_id, job, caller, status>>
table == <<jobs, job_count, next_job_id>>
hist == <<spawnId, doneId, promo, fgStopped, refused, everIds>>
vars == <<jobs, job_count, next_job_id, fg_pid, pc, pid, job_id, job,
          caller, status, proc, stopRep, bgmode, sigchld, stops, out, sent,
          spawnId, doneId, promo, fgStopped, refused, everIds>>

\* ------------------------------------------------------------- job table
ZeroJob == [job_id |-> 0, pid |-> 0, state |-> "RUNNING", command |-> ""]

Used(cnt) == {i \in Slots : i < cnt}

Min(S) == CHOOSE x \in S : \A y \in S : x <= y

find_job_by_pid_in(js, cnt, p) ==
    LET hits == {i \in Used(cnt) : js[i].pid = p}
    IN  IF hits = {} THEN NULL ELSE Min(hits)

find_job_by_pid(p) == find_job_by_pid_in(jobs, job_count, p)

\* find_job_by_id gone wrong: the loop falls through to the first entry
\* instead of returning NULL.
find_job_by_id_fallthrough(id) ==
    LET hits == {i \in Used(job_count) : jobs[i].job_id = id}
    IN  IF hits = {} THEN (IF job_count > 0 THEN 0 ELSE NULL) ELSE Min(hits)

find_job_by_id(id) ==
    LET hits == {i \in Used(job_count) : jobs[i].job_id = id}
    IN  IF hits = {} THEN NULL ELSE Min(hits)

\* remove_job: the first entry with this pid is overwritten by shifting the
\* entries behind it down; the last slot keeps its old content.
remove_job(js, cnt, p) ==
    LET i == find_job_by_pid_in(js, cnt, p)
    IN  IF i = NULL
        THEN [jobs |-> js, job_count |-> cnt]
        ELSE [jobs |-> [j \in Slots |->
                          IF j >= i /\ j < cnt - 1 THEN js[j + 1] ELSE js[j]],
              job_count |-> cnt - 1]

update_job_state(js, cnt, p, st) ==
    LET i == find_job_by_pid_in(js, cnt, p)
    IN  IF i = NULL THEN js ELSE [js EXCEPT ![i].state = st]

\* add_job, line by line.
add_job_full(cnt) == cnt >= MAX_JOBS
add_job_id(js, cnt, nid) == [js EXCEPT ![cnt].job_id = nid]
add_job_pid(js, cnt, p) == [js EXCEPT ![cnt].pid = p]
add_job_state(js, cnt, st) == [js EXCEPT ![cnt].state = st]
add_job_command(js, cnt, cmd) == [js EXCEPT ![cnt].command = cmd]

\* add_job run without interruption (as sigchld_handler runs it).
add_job(js, cnt, nid, p, cmd, st) ==
    IF add_job_full(cnt)
    THEN [jobs |-> js, job_count |-> cnt, next_job_id |-> nid, full |-> TRUE]
    ELSE [jobs |-> add_job_command(
                     add_job_state(
                       add_job_pid(add_job_id(js, cnt, nid), cnt, p),
                       cnt, st),
                     cnt, cmd),
          job_count |-> cnt + 1, next_job_id |-> nid + 1, full |-> FALSE]

IdsOf(js, cnt) == {js[i].job_id : i \in Used(cnt)}

\* jobs[job_count-1].job_id as the notices read it.
LastJobId(js, cnt) == IF cnt >= 1 THEN {js[cnt - 1].job_id} ELSE GarbageIds

\* ----------------------------------------------------------------- kernel
Alive(p) == proc[p] \in {"running", "stopped"}
IsChild(p) == p \in Pids /\ proc[p] \in {"running", "stopped", "zombie"}
Reportable(p) == proc[p] = "zombie" \/ (proc[p] = "stopped" /\ p \in stopRep)

\* The children a pid argument of kill/waitpid names: pid 0 is the shell's
\* own process group, i.e. the shell and its foreground-mode children.
Group(p) == IF p = 0 THEN {q \in Pids : IsChild(q) /\ q \notin bgmode}
            ELSE {p} \cap {q \in Pids : IsChild(q)}

\* kill(p, sig) for the signals the shell sends itself.
KillProc(p, sig) ==
    [q \in Pids |->
        IF q \in Group(p) /\ Alive(q)
        THEN CASE sig = "SIGKILL" -> "zombie"
               [] sig = "SIGCONT" -> "running"
               [] OTHER -> proc[q]
        ELSE proc[q]]

Kill(p, sig) ==
    /\ proc' = KillProc(p, sig)
    /\ stopRep' = {q \in stopRep : proc'[q] = "stopped"}
    /\ sigchld' = (sigchld \/ proc' # proc)
    /\ sent' = <<p, sig>>
    /\ fgStopped' = {q \in fgStopped : proc'[q] = "stopped"}
    /\ UNCHANGED <<bgmode, stops>>

ShellDies(p, sig) == p = 0 /\ sig = "SIGKILL"


\* ------------------------------------------------------------------- Init
Init ==
    /\ jobs = [i \in Slots |-> ZeroJob]
    /\ job_count = 0
    /\ next_job_id = 1
    /\ fg_pid = 0
    /\ pc = "prompt"
    /\ pid = 0
    /\ job_id = NULL
    /\ job = NULL
    /\ caller = ""
    /\ status = ""
    /\ proc = [p \in Pids |-> "none"]
    /\ stopRep = {}
    /\ bgmode = {}
    /\ sigchld = FALSE
    /\ stops = 0
    /\ out = ""
    /\ sent = NoSig
    /\ spawnId = [p \in Pids |-> NULL]
    /\ doneId = [p \in Pids |-> NULL]
    /\ promo = [p \in Pids |-> 0]
    /\ fgStopped = {}
    /\ refused = {}
    /\ everIds = {}

Quiet == out' = "" /\ sent' = NoSig

\* The main thread is at source line `at`.
Main(at) == pc = at

ToPrompt ==
    /\ pc' = "prompt"
    /\ pid' = 0
    /\ job_id' = NULL
    /\ job' = NULL
    /\ caller' = ""
    /\ status' = ""

\* ------------------------------------------------------------ environment
\* A running child terminates (exit, or a signal it does not survive).
ChildExit(p) ==
    /\ proc[p] = "running"
    /\ proc' = [proc EXCEPT ![p] = "zombie"]
    /\ sigchld' = TRUE
    /\ Quiet
    /\ UNCHANGED <<table, fg_pid, pc, locals, stopRep, bgmode, stops, hist>>

\* A running child stops (SIGTSTP, SIGTTIN, SIGSTOP, ...).
ChildStop(p) ==
    /\ proc[p] = "running"
    /\ stops < MaxStops
    /\ proc' = [proc EXCEPT ![p] = "stopped"]
    /\ stopRep' = stopRep \cup {p}
    /\ stops' = stops + 1
    /\ sigchld' = TRUE
    /\ fgStopped' = IF pc = "wait_264" /\ fg_pid = p /\ find_job_by_pid(p) = NULL
                    THEN fgStopped \cup {p} ELSE fgStopped
    /\ Quiet
    /\ UNCHANGED <<table, fg_pid, pc, locals, bgmode,
                   spawnId, doneId, promo, refused, everIds>>

\* --------------------------------------------------------- signal handlers
\* One pass of the loop of sigchld_handler: waitpid(-1, WNOHANG | WUNTRACED)
\* has returned child p.  h holds what the handler reads and writes.
drain_terminated(h, p) ==
    LET j == find_job_by_pid_in(h.jobs, h.job_count, p)
        r == remove_job(h.jobs, h.job_count, p)
    IN  IF j # NULL
        THEN [h EXCEPT !.proc[p] = "reaped",
                       !.doneId[p] = h.jobs[j].job_id,
                       !.jobs = r.jobs,
                       !.job_count = r.job_count]
        ELSE [h EXCEPT !.proc[p] = "reaped"]

drain_stopped(h, p) ==
    LET j == find_job_by_pid_in(h.jobs, h.job_count, p)
        r == add_job(h.jobs, h.job_count, h.next_job_id, p, FG_LABEL, "STOPPED")
    IN  IF j # NULL
        THEN [h EXCEPT !.stopRep = @ \ {p},
                       !.jobs = update_job_state(h.jobs, h.job_count, p, "STOPPED")]
        ELSE [h EXCEPT !.stopRep = @ \ {p},
                       !.jobs = r.jobs,
                       !.job_count = r.job_count,
                       !.next_job_id = r.next_job_id,
                       !.promo[p] = @ + 1,
                       !.refused = IF r.full THEN @ \cup {p} ELSE @]

drain_one(h, p) ==
    IF h.proc[p] = "zombie" THEN drain_terminated(h, p) ELSE drain_stopped(h, p)

RECURSIVE drain(_, _)
drain(h, order) ==
    IF order = <<>> THEN h
    ELSE drain(drain_one(h, Head(order)), Tail(order))

\* The orders in which the kernel may hand out the children of S.
Orders(S) ==
    {o \in [1..Cardinality(S) -> S] : \A i, j \in DOMAIN o : i # j => o[i] # o[j]}

\* SIGCHLD is delivered and sigchld_handler runs on top of the main thread
\* until waitpid reports no further child.  SIGCHLD is blocked meanwhile, and
\* a child that changes state during the run is a child that changed state
\* before it (reaped in this run) or after it (SIGCHLD pending again).
sigchld_handler ==
    /\ pc # "dead"
    /\ sigchld
    /\ sigchld' = FALSE
    /\ \E order \in Orders({p \in Pids : Reportable(p)}) :
          LET h == drain([jobs |-> jobs, job_count |-> job_count,
                          next_job_id |-> next_job_id, proc |-> proc,
                          stopRep |-> stopRep, doneId |-> doneId,
                          promo |-> promo, refused |-> refused], order)
          IN  /\ jobs' = h.jobs
              /\ job_count' = h.job_count
              /\ next_job_id' = h.next_job_id
              /\ proc' = h.proc
              /\ stopRep' = h.stopRep
              /\ doneId' = h.doneId
              /\ promo' = h.promo
              /\ refused' = h.refused
              /\ everIds' = everIds \cup IdsOf(h.jobs, h.job_count)
    /\ Quiet
    /\ UNCHANGED <<fg_pid, pc, locals, bgmode, stops, spawnId, fgStopped>>

\* sigint_handler gone wrong: the test of fg_pid is missing.
sigint_handler_unguarded ==
    /\ pc # "dead"
    /\ out' = ""
    /\ sent' = <<fg_pid, "SIGINT">>
    /\ UNCHANGED <<table, fg_pid, pc, locals, kern, hist>>

sigint_handler ==
    /\ pc # "dead"
    /\ out' = ""
    /\ sent' = IF fg_pid > 0 THEN <<fg_pid, "SIGINT">> ELSE NoSig
    /\ UNCHANGED <<table, fg_pid, pc, locals, kern, hist>>

sigtstp_handler ==
    /\ pc # "dead"
    /\ out' = ""
    /\ sent' = IF fg_pid > 0 THEN <<fg_pid, "SIGTSTP">> ELSE NoSig
    /\ UNCHANGED <<table, fg_pid, pc, locals, kern, hist>>


\* -------------------------------------------------- main loop: the prompt
\* Job ids a user types after fg, bg and kill: atoi of a non-number is 0, and
\* every id from next_job_id on is an id no entry carries.
JobIdArgs == 0..next_job_id

NewPid == Min({p \in Pids : proc[p] = "none"})
CanFork == \E p \in Pids : proc[p] = "none"

\* execute_command(args, background = 1): fork succeeded, parent side.
SpawnBackground ==
    /\ Main("prompt")
    /\ CanFork
    /\ proc' = [proc EXCEPT ![NewPid] = "running"]
    /\ bgmode' = bgmode \cup {NewPid}
    /\ pid' = NewPid
    /\ pc' = "add_188"
    /\ Quiet
    /\ UNCHANGED <<table, fg_pid, job_id, job, caller, status,
                   stopRep, sigchld, stops, hist>>

\* execute_command(args, background = 0): fork succeeded, parent side.
SpawnForeground ==
    /\ Main("prompt")
    /\ CanFork
    /\ proc' = [proc EXCEPT ![NewPid] = "running"]
    /\ pid' = NewPid
    /\ caller' = "exec"
    /\ pc' = "wait_262"
    /\ Quiet
    /\ UNCHANGED <<table, fg_pid, job_id, job, status,
                   stopRep, bgmode, sigchld, stops, hist>>

\* execute_command: fork failed.
ForkError ==
    /\ Main("prompt")
    /\ out' = "fork error"
    /\ sent' = NoSig
    /\ UNCHANGED <<table, fg_pid, pc, locals, kern, hist>>

\* builtin_command: fg, bg or kill with an argument.
Builtin(cmd, id) ==
    /\ Main("prompt")
    /\ job_id' = id
    /\ pc' = CASE cmd = "fg" -> "fg_294"
               [] cmd = "bg" -> "bg_318"
               [] cmd = "kill" -> "kill_341"
    /\ Quiet
    /\ UNCHANGED <<table, fg_pid, pid, job, caller, status, kern, hist>>

\* ------------------------------------------- add_job on the main thread
add_188 ==
    /\ Main("add_188")
    /\ IF add_job_full(job_count)
       THEN /\ out' = "Job queue full"
            /\ refused' = refused \cup {pid}
            /\ pc' = "exec_177"
       ELSE /\ out' = ""
            /\ refused' = refused
            /\ pc' = "add_193"
    /\ sent' = NoSig
    /\ UNCHANGED <<table, fg_pid, locals, kern,
                   spawnId, doneId, promo, fgStopped, everIds>>

add_193 ==
    /\ Main("add_193")
    /\ jobs' = add_job_id(jobs, job_count, next_job_id)
    /\ next_job_id' = next_job_id + 1
    /\ pc' = "add_194"
    /\ Quiet
    /\ UNCHANGED <<job_count, fg_pid, locals, kern, hist>>

add_194 ==
    /\ Main("add_194")
    /\ jobs' = add_job_pid(jobs, job_count, pid)
    /\ pc' = "add_195"
    /\ Quiet
    /\ UNCHANGED <<job_count, next_job_id, fg_pid, locals, kern, hist>>

add_195 ==
    /\ Main("add_195")
    /\ jobs' = add_job_state(jobs, job_count, "RUNNING")
    /\ pc' = "add_196"
    /\ Quiet
    /\ UNCHANGED <<job_count, next_job_id, fg_pid, locals, kern, hist>>

add_196 ==
    /\ Main("add_196")
    /\ jobs' = add_job_command(jobs, job_count, Command(pid))
    /\ pc' = "add_197"
    /\ Quiet
    /\ UNCHANGED <<job_count, next_job_id, fg_pid, locals, kern, hist>>

add_197 ==
    /\ Main("add_197")
    /\ job_count' = job_count + 1
    /\ everIds' = everIds \cup IdsOf(jobs, job_count + 1)
    /\ pc' = "exec_177"
    /\ Quiet
    /\ UNCHANGED <<jobs, next_job_id, fg_pid, locals, kern,
                   spawnId, doneId, promo, fgStopped, refused>>

\* execute_command: printf("[%d] %d %s\n", jobs[job_count-1].job_id, pid, cmd).
exec_177 ==
    /\ Main("exec_177")
    /\ \E id \in LastJobId(jobs, job_count) :
          spawnId' = [spawnId EXCEPT ![pid] = id]
    /\ out' = ""
    /\ sent' = NoSig
    /\ ToPrompt
    /\ UNCHANGED <<table, fg_pid, kern, doneId, promo, fgStopped, refused,
                   everIds>>

\* ------------------------------------------------------------ wait_for_fg
wait_262 ==
    /\ Main("wait_262")
    /\ fg_pid' = pid
    /\ pc' = "wait_264"
    /\ Quiet
    /\ UNCHANGED <<table, locals, kern, hist>>

\* wait_264 gone wrong: waitpid is not restarted after a handler has run and
\* fails with EINTR while the child is running.
wait_264_eintr ==
    /\ Main("wait_264")
    /\ \/ /\ Group(pid) = {}
          /\ status' = "echild"
          /\ UNCHANGED <<proc, stopRep>>
       \/ \E q \in Group(pid) :
             /\ proc[q] = "zombie"
             /\ proc' = [proc EXCEPT ![q] = "reaped"]
             /\ status' = "exited"
             /\ UNCHANGED stopRep
       \/ \E q \in Group(pid) :
             /\ proc[q] = "stopped" /\ q \in stopRep
             /\ stopRep' = stopRep \ {q}
             /\ status' = "stopped"
             /\ UNCHANGED proc
       \/ \E q \in Group(pid) :
             /\ proc[q] = "running"
             /\ status' = "eintr"
             /\ UNCHANGED <<proc, stopRep>>
    /\ pc' = "wait_270"
    /\ Quiet
    /\ UNCHANGED <<table, fg_pid, pid, job_id, job, caller,
                   bgmode, sigchld, stops, hist>>

\* waitpid(pid, &status, WUNTRACED) returns: a terminated child is reaped, a
\* stop not yet reported is reported, and with no such child it fails with
\* ECHILD.  Otherwise the call blocks (and is restarted after a handler).
wait_264 ==
    /\ Main("wait_264")
    /\ \/ /\ Group(pid) = {}
          /\ status' = "echild"
          /\ UNCHANGED <<proc, stopRep>>
       \/ \E q \in Group(pid) :
             /\ proc[q] = "zombie"
             /\ proc' = [proc EXCEPT ![q] = "reaped"]
             /\ status' = "exited"
             /\ UNCHANGED stopRep
       \/ \E q \in Group(pid) :
             /\ proc[q] = "stopped" /\ q \in stopRep
             /\ stopRep' = stopRep \ {q}
             /\ status' = "stopped"
             /\ UNCHANGED proc
    /\ pc' = "wait_270"
    /\ Quiet
    /\ UNCHANGED <<table, fg_pid, pid, job_id, job, caller,
                   bgmode, sigchld, stops, hist>>

wait_270 ==
    /\ Main("wait_270")
    /\ fg_pid' = 0
    /\ IF caller = "fg"
       THEN /\ pc' = "fg_307"
            /\ UNCHANGED locals
       ELSE ToPrompt
    /\ Quiet
    /\ UNCHANGED <<table, kern, hist>>


\* --------------------------------------------------------- builtin: fg
NotFound ==
    /\ out' = "not found"
    /\ sent' = NoSig
    /\ ToPrompt
    /\ UNCHANGED <<table, fg_pid, kern, hist>>

Found(next) ==
    /\ job' = find_job_by_id(job_id)
    /\ pc' = next
    /\ Quiet
    /\ UNCHANGED <<table, fg_pid, pid, job_id, caller, status, kern, hist>>

fg_294 ==
    /\ Main("fg_294")
    /\ IF find_job_by_id(job_id) = NULL THEN NotFound ELSE Found("fg_301")

fg_301 ==
    /\ Main("fg_301")
    /\ pc' = IF jobs[job].state = "STOPPED" THEN "fg_302" ELSE "fg_306"
    /\ Quiet
    /\ UNCHANGED <<table, fg_pid, locals, kern, hist>>

fg_302 ==
    /\ Main("fg_302")
    /\ Kill(jobs[job].pid, "SIGCONT")
    /\ out' = ""
    /\ pc' = "fg_306"
    /\ UNCHANGED <<table, fg_pid, locals, spawnId, doneId, promo, refused,
                   everIds>>

fg_306 ==
    /\ Main("fg_306")
    /\ pid' = jobs[job].pid
    /\ caller' = "fg"
    /\ pc' = "wait_262"
    /\ Quiet
    /\ UNCHANGED <<table, fg_pid, job_id, job, status, kern, hist>>

fg_307 ==
    /\ Main("fg_307")
    /\ LET r == remove_job(jobs, job_count, jobs[job].pid)
       IN  /\ jobs' = r.jobs
           /\ job_count' = r.job_count
    /\ ToPrompt
    /\ Quiet
    /\ UNCHANGED <<next_job_id, fg_pid, kern, hist>>

\* --------------------------------------------------------- builtin: bg
bg_318 ==
    /\ Main("bg_318")
    /\ IF find_job_by_id(job_id) = NULL THEN NotFound ELSE Found("bg_324")

bg_324 ==
    /\ Main("bg_324")
    /\ IF jobs[job].state = "STOPPED"
       THEN /\ pc' = "bg_325"
            /\ out' = ""
            /\ UNCHANGED locals
       ELSE /\ out' = ""
            /\ ToPrompt
    /\ sent' = NoSig
    /\ UNCHANGED <<table, fg_pid, kern, hist>>

bg_325 ==
    /\ Main("bg_325")
    /\ Kill(jobs[job].pid, "SIGCONT")
    /\ out' = ""
    /\ pc' = "bg_326"
    /\ UNCHANGED <<table, fg_pid, locals, spawnId, doneId, promo, refused,
                   everIds>>

bg_326 ==
    /\ Main("bg_326")
    /\ jobs' = [jobs EXCEPT ![job].state = "RUNNING"]
    /\ out' = ""
    /\ sent' = NoSig
    /\ ToPrompt
    /\ UNCHANGED <<job_count, next_job_id, fg_pid, kern, hist>>

\* ------------------------------------------------------- builtin: kill
kill_341 ==
    /\ Main("kill_341")
    /\ IF find_job_by_id(job_id) = NULL THEN NotFound ELSE Found("kill_347")

\* kill(job->pid, SIGKILL); a pid of 0 names the shell's own process group
\* and kills the shell with it.
kill_347 ==
    /\ Main("kill_347")
    /\ Kill(jobs[job].pid, "SIGKILL")
    /\ IF ShellDies(jobs[job].pid, "SIGKILL")
       THEN /\ pc' = "dead"
            /\ out' = ""
            /\ UNCHANGED locals
       ELSE /\ out' = ""
            /\ ToPrompt
    /\ UNCHANGED <<table, fg_pid, spawnId, doneId, promo, refused, everIds>>

\* ------------------------------------------------------------------- Next
Next ==
    \/ \E p \in Pids : ChildExit(p)
    \/ \E p \in Pids : ChildStop(p)
    \/ sigchld_handler
    \/ sigint_handler
    \/ sigtstp_handler
    \/ SpawnBackground
    \/ SpawnForeground
    \/ ForkError
    \/ \E cmd \in {"fg", "bg", "kill"}, id \in JobIdArgs : Builtin(cmd, id)
    \/ add_188
    \/ add_193
    \/ add_194
    \/ add_195
    \/ add_196
    \/ add_197
    \/ exec_177
    \/ wait_262
    \/ wait_264
    \/ wait_270
    \/ fg_294
    \/ fg_301
    \/ fg_302
    \/ fg_306
    \/ fg_307
    \/ bg_318
    \/ bg_324
    \/ bg_325
    \/ bg_326
    \/ kill_341
    \/ kill_347

Spec == Init /\ [][Next]_vars


\* The scenario of spawning background jobs and letting them terminate:
\* no stop, no fg, bg or kill.
NextBackground ==
    \/ \E p \in Pids : ChildExit(p)
    \/ sigchld_handler
    \/ SpawnBackground
    \/ add_188
    \/ add_193
    \/ add_194
    \/ add_195
    \/ add_196
    \/ add_197
    \/ exec_177

SpecBackground == Init /\ [][NextBackground]_vars

\* A stopped child is terminated from outside the shell (SIGKILL sent by the
\* user from another terminal, or by the system).
ChildKilled(p) ==
    /\ proc[p] = "stopped"
    /\ proc' = [proc EXCEPT ![p] = "zombie"]
    /\ stopRep' = stopRep \ {p}
    /\ fgStopped' = fgStopped \ {p}
    /\ sigchld' = TRUE
    /\ Quiet
    /\ UNCHANGED <<table, fg_pid, pc, locals, bgmode, stops,
                   spawnId, doneId, promo, refused, everIds>>

\* The shell with children that can also be terminated while stopped.
NextOutside ==
    \/ Next
    \/ \E p \in Pids : ChildKilled(p)

SpecOutside == Init /\ [][NextOutside]_vars

\* ---------------------------------------------------------------- list_jobs
\* What jobs[MAX_JOBS].state, memory behind the array that init_shell does
\* not clear, may hold before add_job writes it.
GarbageStates == {"RUNNING", "DONE"}

state_str(st) ==
    CASE st = "RUNNING" -> "Running"
      [] st = "STOPPED" -> "Stopped"
      [] st = "DONE" -> "Done"
      [] OTHER -> "Unknown"

\* The rows list_jobs prints, by their state labels.
RECURSIVE Rows(_)
Rows(labels) ==
    IF labels = <<>> THEN ""
    ELSE " [" \o Head(labels) \o "]" \o Rows(Tail(labels))

list_jobs_output(js, cnt) ==
    IF cnt = 0 THEN "No jobs"
    ELSE "Job ID PID State Command:"
            \o Rows([i \in 1..cnt |-> state_str(js[i - 1].state)])

\* builtin_command: jobs.
list_jobs ==
    /\ Main("prompt")
    /\ out' = list_jobs_output(jobs, job_count)
    /\ sent' = NoSig
    /\ UNCHANGED <<table, fg_pid, pc, locals, kern, hist>>

\* The shell as in Init, with the memory behind the array not known.
InitListing ==
    /\ \E g \in GarbageStates :
          jobs = [i \in Slots |->
                    IF i = MAX_JOBS THEN [ZeroJob EXCEPT !.state = g]
                    ELSE ZeroJob]
    /\ job_count = 0
    /\ next_job_id = 1
    /\ fg_pid = 0
    /\ pc = "prompt"
    /\ pid = 0
    /\ job_id = NULL
    /\ job = NULL
    /\ caller = ""
    /\ status = ""
    /\ proc = [p \in Pids |-> "none"]
    /\ stopRep = {}
    /\ bgmode = {}
    /\ sigchld = FALSE
    /\ stops = 0
    /\ out = ""
    /\ sent = NoSig
    /\ spawnId = [p \in Pids |-> NULL]
    /\ doneId = [p \in Pids |-> NULL]
    /\ promo = [p \in Pids |-> 0]
    /\ fgStopped = {}
    /\ refused = {}
    /\ everIds = {}

NextListing ==
    \/ Next
    \/ list_jobs

SpecListing == InitListing /\ [][NextListing]_vars

\* The steps the main thread takes by itself: every line but the read of the
\* next command at the prompt.  wait_264 is enabled when waitpid can return.
MainStep ==
    \/ add_188 \/ add_193 \/ add_194 \/ add_195 \/ add_196 \/ add_197
    \/ exec_177
    \/ wait_262 \/ wait_264 \/ wait_270
    \/ fg_294 \/ fg_301 \/ fg_302 \/ fg_306 \/ fg_307
    \/ bg_318 \/ bg_324 \/ bg_325 \/ bg_326
    \/ kill_341 \/ kill_347

\* The shell keeps running: a pending SIGCHLD is delivered, and the main
\* thread executes its next statement.  Nothing is assumed of the children
\* or of the user.
SpecFair ==
    /\ Init /\ [][Next]_vars
    /\ WF_vars(sigchld_handler)
    /\ WF_vars(MainStep)

\* ----------------------------------------------------------------- claims
Entries(p) == {i \in Used(job_count) : jobs[i].pid = p}
Ids == IdsOf(jobs, job_count)
Forked == {p \in Pids : proc[p] # "none"}
Key(e) == <<e.job_id, e.pid>>

\* C1: a foreground child that is not in the table and stops while the shell
\* is blocked in wait_for_fg is, once its stop has been reported and SIGCHLD
\* has been handled, in the table exactly once, in state Stopped, and its
\* "Stopped (use 'fg id' to resume)" notice has been printed exactly once.
C1_StoppedForegroundRegisteredOnce ==
    \A p \in fgStopped :
        (p \notin stopRep /\ ~sigchld) =>
            /\ Cardinality(Entries(p)) = 1
            /\ \A i \in Entries(p) : jobs[i].state = "STOPPED"
            /\ promo[p] = 1

\* C2: when the child that fg waited for has stopped (not terminated), the
\* return of fg leaves the job's entry in the table, in state Stopped.
C2_FgKeepsStoppedJob ==
    [][(pc = "fg_307" /\ pc' = "prompt" /\ status = "stopped"
            /\ Entries(pid) # {})
        => \E i \in Used(job_count') :
              jobs'[i].pid = pid /\ jobs'[i].state = "STOPPED"]_vars

\* C3: once every background job that was spawned has terminated and the
\* drain has run, the table is empty and every job has had one Done notice
\* carrying the id of its spawn notice.
C3_OneDoneNoticePerJob ==
    (pc = "prompt" /\ ~sigchld /\ \A p \in Forked : proc[p] = "reaped") =>
        /\ job_count = 0
        /\ \A p \in Forked : doneId[p] # NULL /\ doneId[p] = spawnId[p]

\* C4: at most one entry of the table has a given pid.
C4_PidsUnique ==
    \A i, j \in Used(job_count) : i # j => jobs[i].pid # jobs[j].pid

\* C5: the job ids of jobs[0..job_count-1] are pairwise distinct and each is
\* strictly less than next_job_id.
C5_IdsDistinctAndBelowNext ==
    /\ \A i, j \in Used(job_count) : i # j => jobs[i].job_id # jobs[j].job_id
    /\ \A i \in Used(job_count) : jobs[i].job_id < next_job_id


\* C6: job ids are strictly increasing in table order, next_job_id never
\* decreases, an id that enters the table has not been in the table before,
\* and entries that stay in the table keep their relative order.
C6_IdsIncreasingNeverRecycled ==
    [][/\ \A i, j \in Used(job_count') :
             i < j => jobs'[i].job_id < jobs'[j].job_id
       /\ next_job_id' >= next_job_id
       /\ \A id \in IdsOf(jobs', job_count') \ Ids : id \notin everIds
       /\ \A i, j \in Used(job_count') :
             (/\ i < j
              /\ \E a \in Used(job_count) : Key(jobs[a]) = Key(jobs'[i])
              /\ \E b \in Used(job_count) : Key(jobs[b]) = Key(jobs'[j]))
             => \E a, b \in Used(job_count) :
                   /\ a < b
                   /\ Key(jobs[a]) = Key(jobs'[i])
                   /\ Key(jobs[b]) = Key(jobs'[j])]_vars

C8_FullTableRefusesAndCountBounded ==
    [][/\ (pc = "add_188" /\ pc' # pc /\ job_count >= MAX_JOBS) =>
             (out' = "Job queue full" /\ UNCHANGED <<jobs, job_count, next_job_id>>)
       /\ job_count' \in 0..MAX_JOBS]_vars

\* C9: a child whose insertion into the table was refused is not left alive
\* once the shell is back at the prompt.
C9_NoOrphanAfterCapacityError ==
    pc = "prompt" => \A p \in refused : ~Alive(p)

\* C10: fg, bg and kill with a job id that no entry carries report not-found,
\* send no signal and leave the table, next_job_id, fg_pid and the children
\* as they are.
C10_UnknownIdMutatesNothing ==
    [][(pc \in {"fg_294", "bg_318", "kill_341"} /\ pc' # pc
            /\ \A i \in Used(job_count) : jobs[i].job_id # job_id)
        => /\ out' = "not found"
           /\ sent' = NoSig
           /\ pc' = "prompt"
           /\ UNCHANGED <<jobs, job_count, next_job_id, fg_pid, proc, stopRep>>]_vars

\* C10 happens: not-found has just been reported while the table holds a
\* live job.
C10_Witness ==
    /\ out = "not found"
    /\ pc = "prompt"
    /\ job_count >= 1
    /\ \E p \in Pids : Alive(p) /\ Entries(p) # {}

\* C11: bg on a Stopped job leaves the job's entry Running; a stop of a
\* tabled child that sigchld_handler drains leaves its entry Stopped; both
\* transitions keep the number of entries and every entry's job id, pid and
\* command; and bg on a job found Running sends nothing and changes nothing.
C11_BgStopCycleKeepsIdentity ==
    [][/\ (pc = "bg_326" /\ pc' = "prompt") =>
             /\ (\E i \in Used(job_count') : jobs'[i].job_id = job_id)
                   => \E i \in Used(job_count') :
                         jobs'[i].job_id = job_id /\ jobs'[i].state = "RUNNING"
             /\ job_count' = job_count
             /\ \A i \in Used(job_count) :
                   /\ Key(jobs'[i]) = Key(jobs[i])
                   /\ jobs'[i].command = jobs[i].command
       /\ (sigchld /\ ~sigchld') =>
             \A p \in Pids :
                (/\ p \in stopRep /\ p \notin stopRep'
                 /\ proc'[p] = "stopped" /\ Entries(p) # {})
                => \E i \in Entries(p) : \E k \in Used(job_count') :
                      /\ Key(jobs'[k]) = Key(jobs[i])
                      /\ jobs'[k].command = jobs[i].command
                      /\ jobs'[k].state = "STOPPED"
       /\ (pc = "bg_324" /\ pc' = "prompt") =>
             /\ sent' = NoSig
             /\ UNCHANGED <<jobs, job_count, next_job_id, proc, stopRep>>]_vars

\* The pids of the entries that carry job id `id`.
PidsOfId(id) == {jobs[i].pid : i \in {k \in Used(job_count) : jobs[k].job_id = id}}
TabledPids == {jobs[i].pid : i \in Used(job_count)}

\* C12: kill on an existing job sends SIGKILL to the pid of the entry with
\* that job id (never to a live child tabled under another job id only) and
\* leaves jobs, job_count and next_job_id as they are; a Done notice carries
\* the job id of the entry of the terminated child and is printed once; and
\* a tabled child that kill has terminated eventually has its entry removed
\* and its Done notice printed, as long as the shell itself lives.
C12_KillSignalsThenDrainRemoves ==
    /\ [][(pc = "kill_347" /\ pc' # pc) =>
             /\ UNCHANGED <<jobs, job_count, next_job_id>>
             /\ sent'[2] = "SIGKILL"
             /\ \/ sent'[1] \in PidsOfId(job_id)
                \/ ~(sent'[1] \in Pids /\ sent'[1] \in TabledPids
                        /\ Alive(sent'[1]))]_vars
    /\ [][\A p \in Pids : doneId'[p] # doneId[p] =>
             /\ doneId[p] = NULL
             /\ \E i \in Entries(p) : doneId'[p] = jobs[i].job_id]_vars
    /\ \A p \in Pids :
          (sent = <<p, "SIGKILL">> /\ proc[p] = "zombie"
                /\ Cardinality(Entries(p)) = 1)
             ~> (pc = "dead" \/ (Entries(p) = {} /\ doneId[p] # NULL))

\* C13: whenever execute_command is about to print the background-spawn
\* notice, job_count >= 1 and jobs[job_count-1], whose job id the notice
\* carries, is the entry of the spawned pid.
C13_SpawnNoticeNamesInsertedEntry ==
    pc = "exec_177" => (job_count >= 1 /\ jobs[job_count - 1].pid = pid)

\* C14: whenever the child the shell waits for in wait_for_fg has stopped,
\* the wait eventually returns, fg_pid is reset to 0 and the shell is back
\* at the prompt.
C14_StoppedForegroundReleasesShell ==
    (/\ pc = "wait_264"
     /\ fg_pid \in Pids
     /\ proc[fg_pid] = "stopped")
        ~> (fg_pid = 0 /\ pc = "prompt")

\* C15: the return of fg <id> leaves every entry of another job id whose
\* child has not terminated in the table, with its job id, pid and command.
C15_FgTouchesOnlyItsJob ==
    [][(pc = "fg_307" /\ pc' = "prompt") =>
          \A i \in Used(job_count) :
             (/\ jobs[i].job_id # job_id
              /\ jobs[i].pid \in Pids
              /\ Alive(jobs[i].pid))
             => \E k \in Used(job_count') :
                   /\ Key(jobs'[k]) = Key(jobs[i])
                   /\ jobs'[k].command = jobs[i].command]_vars

\* C16: when wait_for_fg, called by execute_command for a foreground
\* command, returns after waitpid reported the termination of the child, no
\* entry of the table has the pid of that child.
C16_NoEntryAfterForegroundExit ==
    [][(pc = "wait_270" /\ pc' = "prompt" /\ caller = "exec"
            /\ status = "exited")
        => \A i \in Used(job_count') : jobs'[i].pid # pid]_vars

\* C17: sigint_handler and sigtstp_handler send a signal only when fg_pid
\* is non-zero, the signal is then SIGINT resp. SIGTSTP and goes to the pid
\* in fg_pid, with fg_pid 0 they send nothing, and they leave jobs,
\* job_count, next_job_id and fg_pid as they are.
C17_HandlersForwardOnlyToFgPid ==
    [][(sigint_handler \/ sigtstp_handler) =>
          /\ fg_pid = 0 => sent' = NoSig
          /\ sent' # NoSig =>
                /\ fg_pid # 0
                /\ sent'[1] = fg_pid
                /\ sent'[2] \in {"SIGINT", "SIGTSTP"}
          /\ UNCHANGED <<jobs, job_count, next_job_id, fg_pid>>]_vars

\* C17 happens: a signal has just been forwarded to the foreground child
\* while the table holds a live job with another pid.
C17_Witness ==
    /\ sent[2] \in {"SIGINT", "SIGTSTP"}
    /\ pc = "wait_264"
    /\ sent[1] = fg_pid
    /\ \E p \in Pids : p # fg_pid /\ Alive(p) /\ Entries(p) # {}

C19_StoppedEntryNotResumed ==
    pc # "bg_326" =>
        \A i \in Used(job_count) :
            (jobs[i].state = "STOPPED" /\ jobs[i].pid \in Pids)
                => proc[jobs[i].pid] # "running"

\* The listings of one to MAX_JOBS + 1 rows over the given state labels.
Listings(labels) ==
    {"Job ID PID State Command:" \o Rows(r) :
        r \in UNION {[1..n -> labels] : n \in 1..(MAX_JOBS + 1)}}

====
